---------------------------- MODULE Spec2Model ----------------------------
(***************************************************************************)
(* A model of zdf-download (src/zdf_download.py, src/app.py): the          *)
(* eligibility check, the filename sequencer and the acquisition pipeline. *)
(*                                                                         *)
(* Strings the code inspects character by character (file names, titles,   *)
(* regex literals) are sequences of one-character strings, so that         *)
(* sorting, substring tests, splitext and the regular expression of        *)
(* find_filename are computed as Python computes them.  Links are opaque   *)
(* strings: the code only compares them for equality.                      *)
(***************************************************************************)
EXTENDS Integers, Sequences, FiniteSets, TLC

VARIABLES
    year,       \* the calendar year datetime.now() reports
    history,    \* History: the set of links recorded as downloaded
    files,      \* the file names present in each download folder
    pc,         \* position of the single thread of app.main
    polls,      \* number of check_all_shows jobs started so far
    showIdx,    \* check_all_shows: index of the show being checked
    entries,    \* check_show: the reversed feed entries
    entryIdx,   \* check_show: index of the entry being processed
    evals,      \* log: should_download calls of the current check_show
    dls,        \* log: downloader invocations of the current check_show
    okCount,    \* log: successful downloads per link in this process run
    failed,     \* log: the links whose download has failed in this run
    err,        \* log: the step whose exception ended the process
    start,      \* sequencer runs: the folder content before the first call
    returned,   \* sequencer runs: what each find_filename call returned
    acquired,   \* log: the filename stem each link was downloaded under
    stems       \* log: what find_filename returned for the current entry

vars == << year, history, files, pc, polls, showIdx, entries, entryIdx,
           evals, dls, okCount, failed, err, start, returned, acquired,
           stems >>

-----------------------------------------------------------------------------
(* Bounds of the model *)

\* number of scheduled check_all_shows jobs explored
MaxPolls == 2
\* number of times the calendar year advances
MaxYearTicks == 1
\* number of consecutive sequencer calls explored by SeqSpec
MaxCalls == 3
\* highest episode number find_filename hands out in PairSpec
MaxEpisode == 3

-----------------------------------------------------------------------------
(* Characters and strings *)

\* the characters used, in code point order (Python compares str by code point)
Alphabet ==
    << " ", "-", ".", "0", "1", "2", "3", "4", "5", "6", "7", "8", "9",
       "D", "E", "N", "S", "b", "e", "f", "g", "h", "j", "m", "n", "o",
       "p", "t", "u", "w" >>

\* ord(c)
OrdOf ==
    [ c \in { Alphabet[i] : i \in 1..Len(Alphabet) } |->
        CHOOSE i \in 1..Len(Alphabet) : Alphabet[i] = c ]

Ord(c) == OrdOf[c]

Digits == << "0", "1", "2", "3", "4", "5", "6", "7", "8", "9" >>

IsDigit(c) == \E i \in 1..10 : Digits[i] = c

DigitValue(c) == (CHOOSE i \in 1..10 : Digits[i] = c) - 1

\* str < str: lexicographic by code point, a proper prefix being smaller
StrLess(a, b) ==
    LET n     == IF Len(a) < Len(b) THEN Len(a) ELSE Len(b)
        diffs == { i \in 1..n : a[i] # b[i] }
    IN  IF diffs = {} THEN Len(a) < Len(b)
        ELSE LET k == CHOOSE i \in diffs : \A j \in diffs : i <= j
             IN  Ord(a[k]) < Ord(b[k])

\* sorted(names): the names in ascending order
RECURSIVE sorted(_)
sorted(names) ==
    IF names = {} THEN << >>
    ELSE LET least == CHOOSE n \in names :
                          \A m \in names \ {n} : StrLess(n, m)
         IN  << least >> \o sorted(names \ {least})

\* sub in s (Python's substring test)
Contains(s, sub) ==
    \E i \in 0..(Len(s) - Len(sub)) :
        \A j \in 1..Len(sub) : s[i + j] = sub[j]

\* os.path.splitext(name)[0]: cut at the last dot, unless only dots precede it
splitext_root(name) ==
    LET dots == { i \in 1..Len(name) :
                    /\ name[i] = "."
                    /\ \E j \in 1..(i - 1) : name[j] # "." }
    IN  IF dots = {} THEN name
        ELSE LET last == CHOOSE i \in dots : \A j \in dots : j <= i
             IN  SubSeq(name, 1, last - 1)

\* the length of the run of digits of s that starts at index i
RECURSIVE DigitRun(_, _)
DigitRun(s, i) ==
    IF i <= Len(s) /\ IsDigit(s[i]) THEN 1 + DigitRun(s, i + 1) ELSE 0

\* int(digits)
RECURSIVE int(_)
int(digits) ==
    IF Len(digits) = 0 THEN 0
    ELSE 10 * int(SubSeq(digits, 1, Len(digits) - 1))
            + DigitValue(digits[Len(digits)])

\* str(n) for n >= 0
RECURSIVE str(_)
str(n) ==
    IF n < 10 THEN << Digits[n + 1] >>
    ELSE str(n \div 10) \o << Digits[(n % 10) + 1] >>

\* "{:0>2d}".format(n): right-aligned, filled with "0" to at least two characters
format_02d(n) == IF Len(str(n)) < 2 THEN << "0" >> \o str(n) ELSE str(n)

\* datetime.strftime(now, '%y'): the year without century, two digits
strftime_y(y) == format_02d(y % 100)

\* the result of a failed match (Python's None)
None == [ matched |-> FALSE, group1 |-> << >>, group2 |-> << >>,
          group3 |-> << >> ]

\* re.match(r"^(.* )S(\d+)E(\d+)", s): the greedy (.* ) ends at the LAST blank
\* that is followed by S, digits, E, digits; each \d+ takes the whole run.
re_match_SE(s) ==
    LET ok(k) == /\ s[k] = " "
                 /\ k + 1 <= Len(s) /\ s[k + 1] = "S"
                 /\ DigitRun(s, k + 2) >= 1
                 /\ k + 2 + DigitRun(s, k + 2) <= Len(s)
                 /\ s[k + 2 + DigitRun(s, k + 2)] = "E"
                 /\ DigitRun(s, k + 3 + DigitRun(s, k + 2)) >= 1
        ks == { k \in 1..Len(s) : ok(k) }
    IN  IF ks = {} THEN None
        ELSE LET k  == CHOOSE x \in ks : \A y \in ks : y <= x
                 d2 == DigitRun(s, k + 2)
                 d3 == DigitRun(s, k + 3 + d2)
             IN  [ matched |-> TRUE,
                   group1 |-> SubSeq(s, 1, k),
                   group2 |-> SubSeq(s, k + 2, k + 1 + d2),
                   group3 |-> SubSeq(s, k + 3 + d2, k + 2 + d2 + d3) ]

-----------------------------------------------------------------------------
(* The filename sequencer *)

Mp4 == << ".", "m", "p", "4" >>

\* a call's outcome: the value it returns, or an exception leaving it
Return(value) == [ raised |-> FALSE, value |-> value ]

\* an exception replaced by a made-up name
Raise_ReturnsAName == Return(<< "g" >>)

Raise == [ raised |-> TRUE, value |-> << >> ]

\* lines 75-79: the episode number after the newest file's, or 1 when that
\* file's season is not the current one
new_episode_number_NoIncrement(season, regex) ==
    int(IF season = regex.group2 THEN regex.group3 ELSE << "0", "0" >>)

new_episode_number_NoRollover(season, regex) == int(regex.group3) + 1

new_episode_number(season, regex) ==
    LET filename_number ==
            IF season = regex.group2 THEN regex.group3 ELSE << "0", "0" >>
    IN  int(filename_number) + 1

\* line 69, the filter of the listing: the files find_filename counts
is_episode_file_AnyMedia(filename, download) == Contains(filename, Mp4)

is_episode_file(filename, download) ==
    /\ Contains(filename, download.filename)
    /\ Contains(filename, Mp4)

\* find_filename(download), given os.listdir(download.folder) and the year of
\* datetime.now().  regex.group on a failed match is an AttributeError.
find_filename(download, listing, y) ==
    LET episode_files ==
            SelectSeq(sorted(listing),
                      LAMBDA filename : is_episode_file(filename, download))
        season == strftime_y(y)
    IN  IF Len(episode_files) > 0
        THEN LET newest_filename ==
                     splitext_root(episode_files[Len(episode_files)])
                 regex == re_match_SE(newest_filename)
             IN  IF ~regex.matched THEN Raise
                 ELSE Return(download.filename \o << " ", "S" >> \o season
                                 \o << "E" >>
                                 \o format_02d(new_episode_number(season, regex)))
        ELSE Return(download.filename \o << " ", "S" >> \o season
                        \o << "E", "0", "1" >>)

-----------------------------------------------------------------------------
(* Configuration: the shows of configuration.yaml *)

Demo == << "D", "e", "m", "o" >>

News == << "N", "e", "w", "s" >>

\* the years datetime.now() reports while the model runs
Years == 2024..(2024 + MaxYearTicks)

\* "<prefix> S<season>E<episode><suffix>"
FileName(prefix, season, episode, suffix) ==
    prefix \o << " ", "S" >> \o season \o << "E" >> \o episode \o suffix

Nfo == << ".", "n", "f", "o" >>

ThumbJpg == << "-", "t", "h", "u", "m", "b", ".", "j", "p", "g" >>

\* a date string: its day (a day number), whether it is written in RFC 822 as
\* feeds deliver it, and whether it names a UTC offset
Published(day) == [ day |-> day, rfc822 |-> TRUE, offset |-> TRUE ]

\* dateutil's parser.parse(text): the datetime, whatever the format; it is
\* offset-aware when the text names an offset
parser_parse(text) == [ day |-> text.day, aware |-> text.offset ]

\* datetime < datetime raises TypeError between an offset-naive and an
\* offset-aware operand
Comparable(a, b) == a.aware = b.aware

\* the configured shows (config.shows), in configuration order
Shows ==
    << [ feed_url |-> "demo",
         download |-> [ folder |-> "demo", filename |-> Demo ],
         filter   |-> << [ regex       |-> << "D", "e" >>,
                           regex_field |-> "title",
                           min_date    |-> << Published(2) >> ] >> ],
       [ feed_url |-> "news",
         download |-> [ folder |-> "news", filename |-> News ],
         filter   |-> << >> ] >>

\* the entries each feed may list (feedparser entries)
FeedEntries ==
    [ demo |-> { [ link |-> "x/a", title |-> News, published |-> Published(3) ],
                 [ link |-> "x/b", title |-> Demo, published |-> Published(1) ],
                 [ link |-> "x/c", title |-> Demo, published |-> Published(4) ] },
      news |-> { [ link |-> "y/1", title |-> News, published |-> Published(1) ],
                 [ link |-> "y/2", title |-> News, published |-> Published(2) ] } ]

Links == { e.link : e \in FeedEntries.demo \cup FeedEntries.news }

\* the entries of a set, newest first, as a feed delivers them
RECURSIVE NewestFirst(_)
NewestFirst(es) ==
    IF es = {} THEN << >>
    ELSE LET newest == CHOOSE e \in es :
                           \A o \in es : o.published.day <= e.published.day
         IN  << newest >> \o NewestFirst(es \ {newest})

\* feedparser.parse(feed_url).entries: any of the feed's entries, newest first
Feeds(feed_url) == { NewestFirst(es) : es \in SUBSET FeedEntries[feed_url] }

-----------------------------------------------------------------------------
(* Sequencer runs: find_filename called again and again on one folder, the  *)
(* media file "<returned name>.mp4" being created after each call.          *)

SeqDownload == [ folder |-> "demo", filename |-> Demo ]

\* the files a folder may hold before the first call
SeqFiles ==
    { FileName(Demo, << "2", "4" >>, << "0", "1" >>, Mp4),
      FileName(Demo, << "2", "4" >>, << "0", "9" >>, Mp4),
      FileName(Demo, << "2", "4" >>, << "9", "8" >>, Mp4),
      FileName(Demo, << "2", "4" >>, << "9", "9" >>, Mp4),
      FileName(Demo, << "2", "3" >>, << "0", "7" >>, Mp4),
      FileName(Demo, << "2", "5" >>, << "0", "1" >>, Mp4),
      FileName(Demo, << "2", "4" >>, << "5" >>, Mp4),
      FileName(Demo, << "2", "4" >>, << "0", "1" >>, Nfo),
      FileName(Demo, << "2", "4" >>, << "0", "1" >>, ThumbJpg),
      Demo \o Mp4 }

Folders == { "demo", "news" }

Idle ==
    /\ pc = "idle" /\ polls = 0 /\ showIdx = 0
    /\ entries = << >> /\ entryIdx = 0
    /\ evals = << >> /\ dls = << >>
    /\ okCount = [ l \in Links |-> 0 ]
    /\ failed = {}
    /\ err = "none"
    /\ acquired = [ l \in Links |-> << >> ]
    /\ stems = << >>

SeqInit ==
    /\ year \in Years
    /\ start \in SUBSET SeqFiles
    /\ files = [ f \in Folders |-> IF f = SeqDownload.folder THEN start ELSE {} ]
    /\ returned = << >>
    /\ history = {}
    /\ Idle

\* one find_filename call, then "<name>.mp4" appears in the folder
SeqCall ==
    /\ Len(returned) < MaxCalls
    /\ LET r == find_filename(SeqDownload, files[SeqDownload.folder], year)
       IN  /\ returned' = Append(returned, r)
           /\ files' = IF r.raised THEN files
                       ELSE [ files EXCEPT ![SeqDownload.folder] =
                                  @ \cup { r.value \o Mp4 } ]
    /\ UNCHANGED << year, history, pc, polls, showIdx, entries, entryIdx,
                    evals, dls, okCount, failed, err, start, acquired,
                    stems >>

SeqNext == SeqCall

SeqSpec == SeqInit /\ [][SeqNext]_vars

-----------------------------------------------------------------------------
(* Vocabulary of the claims about the sequencer.  File names are taken      *)
(* apart by position here, not by the regular expression of the code.       *)

\* the files of a listing the sequencer counts for a prefix
Matching(listing, prefix) ==
    { f \in listing : Contains(f, prefix) /\ Contains(f, Mp4) }

\* f is "<prefix> S<dd>E<dd>.mp4"
IsSequencerName(f, prefix) ==
    LET n == Len(prefix)
    IN  /\ Len(f) = n + 11
        /\ SubSeq(f, 1, n) = prefix
        /\ SubSeq(f, n + 1, n + 2) = << " ", "S" >>
        /\ IsDigit(f[n + 3]) /\ IsDigit(f[n + 4])
        /\ f[n + 5] = "E"
        /\ IsDigit(f[n + 6]) /\ IsDigit(f[n + 7])
        /\ SubSeq(f, n + 8, n + 11) = Mp4

\* the season token of a name "<prefix> S<dd>E..."
SeasonOf(f, prefix) == SubSeq(f, Len(prefix) + 3, Len(prefix) + 4)

\* the episode number of a stem "<prefix> S<dd>E<digits>"
EpisodeOf(stem, prefix) == int(SubSeq(stem, Len(prefix) + 6, Len(stem)))

\* every counted file was named by the sequencer, in the current season or
\* one that sorts before it
WellNamed(listing, prefix, y) ==
    \A f \in Matching(listing, prefix) :
        /\ IsSequencerName(f, prefix)
        /\ ~StrLess(strftime_y(y), SeasonOf(f, prefix))

\* the folder as the i-th call of a sequencer run found it
FolderBefore(i) ==
    start \cup { returned[j].value \o Mp4 : j \in 1..(i - 1) }

SeqEpisode(i) == EpisodeOf(returned[i].value, SeqDownload.filename)

\* C4 as stated: from any counted files, the numbers of successive calls
\* strictly increase for every number of repetitions.  Stated here for the
\* most favourable folders only, those holding sequencer-named files.
C4_IncreasingForEver ==
    WellNamed(start, SeqDownload.filename, year) =>
        \A i, j \in 1..Len(returned) :
            i < j => SeqEpisode(i) < SeqEpisode(j)

\* C4 (amended): starting from a folder whose counted files are all named
\* "<prefix> S<yy>E<nn>.mp4" with a season token not after the current one,
\* every call returns a name, and a call that returned a number of at most 99
\* is followed only by calls returning strictly greater numbers.
C4_IncreasingUpTo99 ==
    WellNamed(start, SeqDownload.filename, year) =>
        /\ \A i \in 1..Len(returned) : ~returned[i].raised
        /\ \A i, j \in 1..Len(returned) :
               (i < j /\ SeqEpisode(i) <= 99) => SeqEpisode(i) < SeqEpisode(j)

C4_Witness ==
    /\ WellNamed(start, SeqDownload.filename, year)
    /\ Matching(start, SeqDownload.filename) # {}
    /\ Len(returned) >= 3
    /\ SeqEpisode(1) > 1
    /\ SeqEpisode(3) <= 99

\* the counted files are all sequencer-named files of other seasons
PriorSeasonOnly(listing, prefix, y) ==
    /\ Matching(listing, prefix) # {}
    /\ \A f \in Matching(listing, prefix) :
           /\ IsSequencerName(f, prefix)
           /\ SeasonOf(f, prefix) # strftime_y(y)

\* C5: when the counted files all belong to a season token other than the
\* current one, find_filename returns "<prefix> S<current season>E01".
C5_SeasonRollover ==
    \A i \in 1..Len(returned) :
        PriorSeasonOnly(FolderBefore(i), SeqDownload.filename, year) =>
            returned[i] = Return(FileName(SeqDownload.filename,
                                          strftime_y(year), << "0", "1" >>,
                                          << >>))

C5_Witness ==
    /\ Len(returned) >= 1
    /\ PriorSeasonOnly(start, SeqDownload.filename, year)
    /\ Cardinality(Matching(start, SeqDownload.filename)) >= 2

-----------------------------------------------------------------------------
(* History (history.py is not part of the sources at hand: modelled from    *)
(* the History Store contract of the specification)                         *)

is_in_history(hist, link) == link \in hist

add_to_history(hist, link) == hist \cup { link }

-----------------------------------------------------------------------------
(* The eligibility check *)

\* re.search(regex, text) for the literal patterns of the configuration
re_search(regex, text) == Contains(text, regex)

\* the outcomes of requests.get(entry link) in is_episode_released: a page
\* with or without the marker "verfuegbar bis", or an exception
Pages == { "released", "unreleased", "error" }

\* the result of should_download: whether an exception left it, the value it
\* returned, and the checks it evaluated, in order
Outcome(raised, value, checks) ==
    [ raised |-> raised, value |-> value, checks |-> checks ]

\* is_episode_released(url), page being what requests.get yields
is_episode_released_Always(page) == TRUE

is_episode_released(page) == page = "released"

\* lines 35-58 of should_download: the checks behind the history check
show_filter_checks_DateFirst(entry, show_config, page, done) ==
    IF Len(show_config.filter) = 0 THEN Outcome(FALSE, TRUE, done)
    ELSE
      LET show_filter == show_config.filter[1]
          regex       == show_filter.regex
          regex_field == show_filter.regex_field
          min_date    == show_filter.min_date
          with_re     == Len(regex) > 0 /\ regex_field # ""
          with_date   == Len(min_date) > 0
          c1 == IF with_date THEN Append(done, "min_date") ELSE done
          c2 == IF with_re THEN Append(c1, "regex") ELSE c1
      IN  IF with_date
             /\ ~Comparable(parser_parse(entry.published),
                            parser_parse(min_date[1]))
          THEN Outcome(TRUE, FALSE, c1)
          ELSE IF with_date
                  /\ parser_parse(entry.published).day
                        < parser_parse(min_date[1]).day
          THEN Outcome(FALSE, FALSE, c1)
          ELSE IF with_re /\ ~re_search(regex, entry[regex_field])
          THEN Outcome(FALSE, FALSE, c2)
          ELSE IF page = "error"
          THEN Outcome(TRUE, FALSE, Append(c2, "released"))
          ELSE Outcome(FALSE, is_episode_released(page), Append(c2, "released"))

show_filter_checks(entry, show_config, page, done) ==
    IF Len(show_config.filter) = 0 THEN Outcome(FALSE, TRUE, done)
    ELSE
      LET show_filter == show_config.filter[1]
          regex       == show_filter.regex
          regex_field == show_filter.regex_field
          min_date    == show_filter.min_date
          with_re     == Len(regex) > 0 /\ regex_field # ""
          with_date   == Len(min_date) > 0
          c1 == IF with_re THEN Append(done, "regex") ELSE done
          c2 == IF with_date THEN Append(c1, "min_date") ELSE c1
      IN  IF with_re /\ ~re_search(regex, entry[regex_field])
          THEN Outcome(FALSE, FALSE, c1)
          ELSE IF with_date
                  /\ ~Comparable(parser_parse(entry.published),
                                 parser_parse(min_date[1]))
          THEN Outcome(TRUE, FALSE, c2)
          ELSE IF with_date
                  /\ parser_parse(entry.published).day
                        < parser_parse(min_date[1]).day
          THEN Outcome(FALSE, FALSE, c2)
          ELSE IF page = "error"
          THEN Outcome(TRUE, FALSE, Append(c2, "released"))
          ELSE Outcome(FALSE, is_episode_released(page), Append(c2, "released"))

\* should_download with the history check left out
should_download_NoDedup(entry, show_config, hist, page) ==
    show_filter_checks(entry, show_config, page, << >>)

\* should_download with the history check made last
should_download_DedupLast(entry, show_config, hist, page) ==
    LET r == show_filter_checks(entry, show_config, page, << >>)
    IN  IF r.raised \/ ~r.value THEN r
        ELSE Outcome(FALSE, ~is_in_history(hist, entry.link),
                     Append(r.checks, "history"))

\* should_download(entry, show_config), hist being self.history and page what
\* requests.get would yield for the entry's link
should_download(entry, show_config, hist, page) ==
    IF is_in_history(hist, entry.link)
    THEN Outcome(FALSE, FALSE, << "history" >>)
    ELSE show_filter_checks(entry, show_config, page, << "history" >>)

-----------------------------------------------------------------------------
(* The acquisition pipeline.  One thread runs it (app.main): pc is where    *)
(* that thread stands.  An exception nothing catches ends the process.      *)

\* what the process finds at startup: history.yaml is empty, the Demo folder
\* is new, the News folder holds episode 99 of the season
StartHistories == { {} }

StartFiles ==
    { [ f \in Folders |->
          IF f = "news"
          THEN { FileName(News, << "2", "4" >>, << "9", "9" >>, Mp4) }
          ELSE {} ] }

Init ==
    /\ year = 2024
    /\ history \in StartHistories
    /\ files \in StartFiles
    /\ start = {}
    /\ returned = << >>
    /\ Idle

\* the show check_all_shows is at, and the entry check_show is at
show == Shows[showIdx]

cur == entries[entryIdx]

\* an exception nothing catches leaves check_show, check_all_shows, the
\* scheduler's run_all / run_pending and main
Crash(step) ==
    /\ pc' = "crashed"
    /\ err' = step
    /\ UNCHANGED << year, history, files, polls, showIdx, entries, entryIdx,
                    dls, okCount, failed, start, returned, acquired, stems >>

\* schedule.run_all() and then schedule.run_pending() start the job
run_job ==
    /\ pc = "idle"
    /\ polls < MaxPolls
    /\ pc' = "shows"
    /\ polls' = polls + 1
    /\ showIdx' = 1
    /\ UNCHANGED << year, history, files, entries, entryIdx, evals, dls,
                    okCount, failed, err, start, returned, acquired, stems >>

\* entries.reverse()
reverse_Not(feed) == feed

reverse(feed) == [ i \in 1..Len(feed) |-> feed[Len(feed) + 1 - i] ]

\* check_all_shows calls check_show for the next show: the feed is parsed
\* and its entries are reversed
check_show ==
    /\ pc = "shows"
    /\ showIdx <= Len(Shows)
    /\ \E feed \in Feeds(show.feed_url) : entries' = reverse(feed)
    /\ entryIdx' = 1
    /\ evals' = << >>
    /\ dls' = << >>
    /\ pc' = "entries"
    /\ UNCHANGED << year, history, files, polls, showIdx, okCount, failed,
                    err, start, returned, acquired, stems >>

\* check_all_shows has checked every show and returns to the scheduler
check_all_shows_return ==
    /\ pc = "shows"
    /\ showIdx > Len(Shows)
    /\ pc' = "idle"
    /\ showIdx' = 0
    /\ UNCHANGED << year, history, files, polls, entries, entryIdx, evals,
                    dls, okCount, failed, err, start, returned, acquired, stems >>

\* check_show has processed every entry and returns to check_all_shows
check_show_return ==
    /\ pc = "entries"
    /\ entryIdx > Len(entries)
    /\ pc' = "shows"
    /\ showIdx' = showIdx + 1
    /\ entries' = << >>
    /\ entryIdx' = 0
    /\ evals' = << >>
    /\ dls' = << >>
    /\ UNCHANGED << year, history, files, polls, okCount, failed, err,
                    start, returned, acquired, stems >>

\* what requests.get(url) yielded in a should_download call of outcome r:
\* the page, or "none" when is_episode_released was not called
requested(r, page) ==
    IF \E k \in 1..Len(r.checks) : r.checks[k] = "released" THEN page
    ELSE "none"

\* "if self.should_download(entry, show):" - the steps of the entry are
\* taken when it returned True, else the loop goes to the next entry
after_should_download_Always(value) == "thumb"

after_should_download(value) == IF value THEN "thumb" ELSE "entries"

\* check_show evaluates should_download for the next entry
check_entry ==
    /\ pc = "entries"
    /\ entryIdx <= Len(entries)
    /\ \E page \in Pages :
         LET r == should_download(cur, show, history, page)
         IN  /\ evals' = Append(evals, [ entry   |-> cur,
                                         known   |-> cur.link \in history,
                                         outcome |-> r,
                                         page    |-> requested(r, page) ])
             /\ IF r.raised THEN Crash("should_download")
                ELSE /\ pc' = after_should_download(r.value)
                     /\ entryIdx' = IF pc' = "thumb" THEN entryIdx
                                    ELSE entryIdx + 1
                     /\ UNCHANGED << year, history, files, polls, showIdx,
                                     entries, dls, okCount, failed, err,
                                     start, returned, acquired, stems >>

\* save_thumb(entry, download): fetched says whether the page, its og:image
\* tag and the image were all obtained and the file written.  (filename is
\* bound by \E over a one-element set: the call is made once per step.)
save_thumb ==
    /\ pc = "thumb"
    /\ \E download \in { show.download } :
       \E filename \in { find_filename(download, files[download.folder], year) } :
           IF filename.raised THEN Crash("find_filename") /\ UNCHANGED evals
           ELSE \E fetched \in BOOLEAN :
                  IF ~fetched THEN Crash("save_thumb") /\ UNCHANGED evals
                  ELSE /\ files' = [ files EXCEPT ![download.folder] =
                                       @ \cup { filename.value \o ThumbJpg } ]
                       /\ stems' = << filename.value >>
                       /\ pc' = "nfo"
                       /\ UNCHANGED << year, history, polls, showIdx, entries,
                                       entryIdx, evals, dls, okCount, failed,
                                       err, start, returned, acquired >>

\* datetime.strptime(published, '%a, %d %b %Y %H:%M:%S %z') raises unless the
\* string is in that format
strptime_ok(published) == published.rfc822

\* write_nfo(entry, download): written says whether open/write succeeded
write_nfo ==
    /\ pc = "nfo"
    /\ \E download \in { show.download } :
       \E filename \in { find_filename(download, files[download.folder], year) } :
           IF filename.raised THEN Crash("find_filename") /\ UNCHANGED evals
           ELSE \E written \in BOOLEAN :
                  IF ~strptime_ok(cur.published) \/ ~written
                  THEN Crash("write_nfo") /\ UNCHANGED evals
                  ELSE /\ files' = [ files EXCEPT ![download.folder] =
                                       @ \cup { filename.value \o Nfo } ]
                       /\ stems' = Append(stems, filename.value)
                       /\ pc' = "download"
                       /\ UNCHANGED << year, history, polls, showIdx, entries,
                                       entryIdx, evals, dls, okCount, failed,
                                       err, start, returned, acquired >>

\* the exit codes of the youtube-dl subprocess
ExitCodes == { 0, 1 }

\* lines 92-96 of download_episode: the history after the subprocess ended
history_after_AlwaysRecorded(hist, url, returncode) ==
    add_to_history(hist, url)

history_after(hist, url, returncode) ==
    IF returncode = 0 THEN add_to_history(hist, url) ELSE hist

\* download_episode(url, download): on exit code 0 the downloader has written
\* the media file to download_path
download_episode ==
    /\ pc = "download"
    /\ \E download \in { show.download } : \E url \in { cur.link } :
       \E filename \in { find_filename(download, files[download.folder], year) } :
           IF filename.raised THEN Crash("find_filename") /\ UNCHANGED evals
           ELSE \E returncode \in ExitCodes :
                  /\ files' = IF returncode = 0
                              THEN [ files EXCEPT ![download.folder] =
                                       @ \cup { filename.value \o Mp4 } ]
                              ELSE files
                  /\ history' = history_after(history, url, returncode)
                  /\ dls' = Append(dls, [ entry      |-> cur,
                                          stem       |-> filename.value,
                                          season     |-> strftime_y(year),
                                          returncode |-> returncode,
                                          calls      |->
                                            Append(stems, filename.value) ])
                  /\ stems' = << >>
                  /\ acquired' = IF returncode = 0
                                 THEN [ acquired EXCEPT ![url] = filename.value ]
                                 ELSE acquired
                  /\ okCount' = IF returncode = 0
                                THEN [ okCount EXCEPT ![url] = @ + 1 ]
                                ELSE okCount
                  /\ failed' = IF returncode = 0 THEN failed
                               ELSE failed \cup { url }
                  /\ entryIdx' = entryIdx + 1
                  /\ pc' = "entries"
                  /\ UNCHANGED << year, polls, showIdx, entries, evals, err,
                                  start, returned >>

\* the calendar year advances while the process runs.  Only find_filename
\* reads the year, so the advance is taken between jobs or just before a
\* step that calls find_filename.
NewYear ==
    /\ pc \in { "idle", "thumb", "nfo", "download" }
    /\ year + 1 \in Years
    /\ year' = year + 1
    /\ UNCHANGED << history, files, pc, polls, showIdx, entries, entryIdx,
                    evals, dls, okCount, failed, err, start, returned, acquired, stems >>

Next ==
    \/ run_job
    \/ check_show
    \/ check_all_shows_return
    \/ check_show_return
    \/ check_entry
    \/ save_thumb
    \/ write_nfo
    \/ download_episode
    \/ NewYear

Spec == Init /\ [][Next]_vars

\* the pipeline started on a folder in which the newest counted file was not
\* named by the sequencer: "News.mp4" sorts after "News S24E99.mp4", and
\* "Demo S24.mp4" is the only counted file of its folder
CorruptStartFiles ==
    { [ f \in Folders |->
          IF f = "news"
          THEN { FileName(News, << "2", "4" >>, << "9", "9" >>, Mp4),
                 News \o Mp4 }
          ELSE {} ],
      [ f \in Folders |->
          IF f = "news"
          THEN { FileName(News, << "2", "4" >>, << "9", "9" >>, Mp4) }
          ELSE { Demo \o << " ", "S", "2", "4" >> \o Mp4 } ] }

CorruptInit ==
    /\ year = 2024
    /\ history \in StartHistories
    /\ files \in CorruptStartFiles
    /\ start = {}
    /\ returned = << >>
    /\ Idle

CorruptSpec == CorruptInit /\ [][Next]_vars

-----------------------------------------------------------------------------
(* Shows sharing one download folder: find_filename is called for any of    *)
(* them, the media file "<returned name>.mp4" being created, and media      *)
(* files of any of them are created and removed in between.                 *)

\* the download configurations of the shows: "De" occurs in the file names
\* of the show "Demo", "Demo" does not occur in those of the show "De"
PairShows ==
    { [ folder |-> "demo", filename |-> Demo ],
      [ folder |-> "demo", filename |-> << "D", "e" >> ] }

\* media files of a show, as an earlier run or the user may have left them
PairFilesOf(download) ==
    { FileName(download.filename, << "2", "4" >>, << "0", "1" >>, Mp4),
      FileName(download.filename, << "2", "4" >>, << "0", "2" >>, Mp4) }

PairInit ==
    /\ year = 2024
    /\ start = {}
    /\ files = [ f \in Folders |-> {} ]
    /\ returned = << >>
    /\ history = {}
    /\ Idle

PairUnchanged ==
    UNCHANGED << year, history, pc, polls, showIdx, entries, entryIdx, evals,
                 dls, okCount, failed, err, start, acquired, stems >>

\* find_filename for one of the shows, then "<name>.mp4" appears
PairCall ==
    /\ \E download \in PairShows :
         LET r == find_filename(download, files[download.folder], year)
         IN  /\ r.raised \/ EpisodeOf(r.value, download.filename) <= MaxEpisode
             /\ returned' = << r >>
             /\ files' = IF r.raised THEN files
                         ELSE [ files EXCEPT ![download.folder] =
                                    @ \cup { r.value \o Mp4 } ]
    /\ PairUnchanged

\* a media file of one of the shows is put into the folder
PairCreate ==
    /\ \E download \in PairShows : \E f \in PairFilesOf(download) :
         /\ f \notin files[download.folder]
         /\ files' = [ files EXCEPT ![download.folder] = @ \cup { f } ]
    /\ UNCHANGED returned
    /\ PairUnchanged

\* a media file is removed from the folder
PairRemove ==
    /\ \E f \in files["demo"] :
         files' = [ files EXCEPT !["demo"] = @ \ { f } ]
    /\ UNCHANGED returned
    /\ PairUnchanged

PairNext == PairCall \/ PairCreate \/ PairRemove

PairSpec == PairInit /\ [][PairNext]_vars

-----------------------------------------------------------------------------
(* Claims about the pipeline *)

\* C1: a download_episode call whose subprocess exits non-zero leaves the
\* history unchanged, one whose subprocess exits 0 leaves the url in the
\* history, and the history changes in no other step: only by the url of a
\* download that has just succeeded.
C1_HistoryFollowsExitCode ==
    [][ /\ (pc = "download" /\ Len(dls') = Len(dls) + 1) =>
              LET d == dls'[Len(dls')]
              IN  /\ d.returncode # 0 => history' = history
                  /\ d.returncode = 0 => d.entry.link \in history'
        /\ history' # history =>
              /\ pc = "download"
              /\ Len(dls') = Len(dls) + 1
              /\ dls'[Len(dls')].returncode = 0
              /\ history' = history \cup { dls'[Len(dls')].entry.link } ]_vars

C1_Witness ==
    /\ \E i \in 1..Len(dls) :
          dls[i].returncode # 0 /\ dls[i].entry.link \notin history
    /\ \E i \in 1..Len(dls) :
          dls[i].returncode = 0 /\ dls[i].entry.link \in history

\* C2: whenever the downloader is about to be invoked the link is not in the
\* history, and no link is downloaded successfully more than once in a run.
C2_NeverDownloadedAgain ==
    /\ pc = "download" => cur.link \notin history
    /\ \A l \in Links : okCount[l] <= 1

C2_Witness ==
    /\ polls = 2
    /\ \E i \in 1..Len(evals) :
          /\ evals[i].known
          /\ okCount[evals[i].entry.link] = 1
          /\ ~evals[i].outcome.value

\* C3: for an entry whose link is in the history should_download returns
\* false having evaluated the history check alone, whatever the entry's
\* other fields and the show's filter.
C3_KnownLinkRejectedFirst ==
    \A i \in 1..Len(evals) :
        evals[i].known =>
            evals[i].outcome = Outcome(FALSE, FALSE, << "history" >>)

C3_Witness ==
    /\ showIdx \in 1..Len(Shows)
    /\ Len(show.filter) > 0
    /\ \E i \in 1..Len(evals) :
          evals[i].known /\ evals[i].entry.link = "x/c"

\* the show's filter names a regex and a field, and the entry's field does
\* not contain the regex
FailsRegex(entry, show_config) ==
    /\ Len(show_config.filter) > 0
    /\ Len(show_config.filter[1].regex) > 0
    /\ show_config.filter[1].regex_field # ""
    /\ ~Contains(entry[show_config.filter[1].regex_field],
                 show_config.filter[1].regex)

\* C6: an entry not in the history that fails the regex filter is rejected
\* with neither the minimum date compared nor the release page fetched.
C6_RegexFailureShortCircuits ==
    \A i \in 1..Len(evals) :
        (~evals[i].known /\ FailsRegex(evals[i].entry, show)) =>
            /\ ~evals[i].outcome.raised
            /\ ~evals[i].outcome.value
            /\ \A k \in 1..Len(evals[i].outcome.checks) :
                  evals[i].outcome.checks[k] \notin { "min_date", "released" }

C6_Witness ==
    \E i \in 1..Len(evals) :
        /\ ~evals[i].known
        /\ FailsRegex(evals[i].entry, show)
        /\ evals[i].outcome.checks = << "history", "regex" >>

\* the entries were taken oldest first, by should_download and by the
\* downloader
OldestFirst ==
    /\ \A i, j \in 1..Len(evals) :
          i < j => evals[i].entry.published.day < evals[j].entry.published.day
    /\ \A i, j \in 1..Len(dls) :
          i < j => dls[i].entry.published.day < dls[j].entry.published.day

DlEpisode(i) == EpisodeOf(dls[i].stem, show.download.filename)

\* f is "<prefix> S<dd>E<digits>.mp4" with at least two digits of episode
IsEpisodeName(f, prefix) ==
    LET n == Len(prefix)
    IN  /\ Len(f) >= n + 11
        /\ SubSeq(f, 1, n) = prefix
        /\ SubSeq(f, n + 1, n + 2) = << " ", "S" >>
        /\ IsDigit(f[n + 3]) /\ IsDigit(f[n + 4])
        /\ f[n + 5] = "E"
        /\ \A k \in (n + 6)..(Len(f) - 4) : IsDigit(f[k])
        /\ SubSeq(f, Len(f) - 3, Len(f)) = Mp4

\* the counted files of the show's folder are all episode names of the
\* current season or one that sorts before it
SequencerFolder ==
    \A f \in Matching(files[show.download.folder], show.download.filename) :
        /\ IsEpisodeName(f, show.download.filename)
        /\ ~StrLess(strftime_y(year), SeasonOf(f, show.download.filename))

\* C7 as stated: the entries of a newest-first feed are taken oldest first,
\* and the successful downloads of one check_show call get ascending
\* episode numbers.
C7_AscendingNumbers ==
    pc \in { "entries", "thumb", "nfo", "download", "crashed" } =>
        /\ OldestFirst
        /\ \A i, j \in 1..Len(dls) :
              (i < j /\ dls[i].returncode = 0 /\ dls[j].returncode = 0) =>
                  DlEpisode(i) < DlEpisode(j)

\* C7 (amended): the entries of a newest-first feed are taken oldest first,
\* and in a folder holding only sequencer-named media files of seasons up to
\* the current one, two successful downloads of one check_show call made in
\* the same season get ascending episode numbers when the earlier number is
\* at most 99.
C7_AscendingWithinTwoDigits ==
    pc \in { "entries", "thumb", "nfo", "download", "crashed" } =>
        /\ OldestFirst
        /\ \A i, j \in 1..Len(dls) :
              ( /\ i < j
                /\ dls[i].returncode = 0 /\ dls[j].returncode = 0
                /\ dls[i].season = dls[j].season
                /\ DlEpisode(i) <= 99
                /\ SequencerFolder ) => DlEpisode(i) < DlEpisode(j)

C7_Witness ==
    /\ Len(evals) = 2
    /\ Len(dls) = 2
    /\ SequencerFolder
    /\ dls[1].returncode = 0 /\ dls[2].returncode = 0
    /\ dls[1].season = dls[2].season
    /\ DlEpisode(1) = 1 /\ DlEpisode(2) = 2
    /\ OldestFirst

\* C8: no exception leaves check_show, so check_all_shows goes on to the
\* following shows and returns to the scheduling loop.
C8_NoErrorLeavesCheckAllShows == pc # "crashed"

\* C9: when the thumbnail step or the metadata write of an accepted entry
\* fails, the downloader is still invoked for that entry in the same call.
C9_SidecarFailureStillDownloads ==
    err \in { "save_thumb", "write_nfo" } =>
        \E j \in 1..Len(dls) : dls[j].entry = cur

\* C10: an entry whose download has failed and which should_download accepts
\* again in a later call has the downloader invoked for it again, once the
\* processing of that entry is over.
C10_RetriedWhenAcceptedAgain ==
    \A i \in 1..Len(evals) :
        ( /\ evals[i].entry.link \in failed
          /\ ~evals[i].outcome.raised
          /\ evals[i].outcome.value
          /\ (i < Len(evals) \/ pc \notin { "thumb", "nfo", "download" }) ) =>
            \E j \in 1..Len(dls) : dls[j].entry.link = evals[i].entry.link

-----------------------------------------------------------------------------
(* Claims about numbering across polls *)

\* the season token and the episode number a link was downloaded under
AcquiredSeason(link, prefix) == SeasonOf(acquired[link], prefix)

AcquiredEpisode(link, prefix) == EpisodeOf(acquired[link], prefix)

\* C11: of two entries of one show both downloaded successfully in one
\* season, in whatever polls, the one published earlier has the smaller
\* episode number.  Stated here for the case the claim names, the earlier
\* entry's download having failed and been retried, and for two-digit
\* numbers only, where the sequencer's ordering of file names is not in
\* question.
C11_PublicationOrderAcrossPolls ==
    \A k \in 1..Len(Shows) :
        \A a, b \in FeedEntries[Shows[k].feed_url] :
            LET prefix == Shows[k].download.filename
            IN  ( /\ a.link \in failed
                  /\ acquired[a.link] # << >>
                  /\ acquired[b.link] # << >>
                  /\ AcquiredSeason(a.link, prefix) = AcquiredSeason(b.link, prefix)
                  /\ AcquiredEpisode(a.link, prefix) <= 99
                  /\ AcquiredEpisode(b.link, prefix) <= 99
                  /\ a.published.day < b.published.day ) =>
                    AcquiredEpisode(a.link, prefix) < AcquiredEpisode(b.link, prefix)

-----------------------------------------------------------------------------
(* Claims about the three steps of one accepted entry *)

\* C12: the find_filename calls save_thumb, write_nfo and download_episode
\* make for one accepted entry all return the same filename stem.
C12_SameStemForOneEntry ==
    /\ \A i, j \in 1..Len(stems) : stems[i] = stems[j]
    /\ \A d \in 1..Len(dls) :
          \A i, j \in 1..Len(dls[d].calls) : dls[d].calls[i] = dls[d].calls[j]

-----------------------------------------------------------------------------
(* Claims about the release-readiness check *)

\* the entry is published before the show's configured minimum date
BeforeMinDate(entry, show_config) ==
    /\ Len(show_config.filter) > 0
    /\ Len(show_config.filter[1].min_date) > 0
    /\ entry.published.day < show_config.filter[1].min_date[1].day

\* should_download returned True
Accepted(outcome) == ~outcome.raised /\ outcome.value

\* C13: with a filter configured, an entry not in the history that passes
\* the regex and the minimum date has its page fetched and is accepted
\* exactly when the page carries the availability marker; with no filter
\* configured, an entry not in the history is accepted and no page is fetched.
C13_ReleaseCheckOnlyWithFilter ==
    \A i \in 1..Len(evals) :
        ~evals[i].known =>
            IF Len(show.filter) = 0
            THEN Accepted(evals[i].outcome) /\ evals[i].page = "none"
            ELSE ( /\ ~FailsRegex(evals[i].entry, show)
                   /\ ~BeforeMinDate(evals[i].entry, show) ) =>
                     /\ evals[i].page # "none"
                     /\ Accepted(evals[i].outcome) <=>
                            evals[i].page = "released"

C13_Witness ==
    /\ polls = 2
    /\ acquired["y/1"] # << >>
    /\ showIdx = 1
    /\ \E i \in 1..Len(evals) :
          /\ evals[i].entry.link = "x/c"
          /\ evals[i].page = "unreleased"
          /\ ~Accepted(evals[i].outcome)

-----------------------------------------------------------------------------
(* Claims about a folder whose newest file the sequencer cannot parse *)

\* name begins with "<text> S<digits>E<digits>"
Conforms(name) ==
    \E k \in 1..Len(name) : \E a \in 1..Len(name) :
        /\ k + 3 + a <= Len(name)
        /\ name[k] = " " /\ name[k + 1] = "S"
        /\ \A d \in 1..a : IsDigit(name[k + 1 + d])
        /\ name[k + 2 + a] = "E"
        /\ IsDigit(name[k + 3 + a])

\* the lexicographically last file the sequencer counts in the show's
\* folder does not conform
NewestNameCorrupt ==
    LET counted == Matching(files[show.download.folder], show.download.filename)
    IN  /\ counted # {}
        /\ \E last \in counted :
              /\ \A f \in counted \ {last} : StrLess(f, last)
              /\ ~Conforms(splitext_root(last))

\* C14: when the lexicographically last counted file of the folder does not
\* conform to "<text> S<digits>E<digits>", find_filename raises instead of
\* returning a name, and the step of the entry being processed that called it
\* ends the processing: no file is written, the downloader is not invoked
\* and no link is recorded.
C14_CorruptNameFailsLoudly ==
    [][ ( /\ pc \in { "thumb", "nfo", "download" }
          /\ pc' # pc
          /\ NewestNameCorrupt ) =>
            /\ find_filename(show.download, files[show.download.folder],
                             year).raised
            /\ pc' = "crashed" /\ err' = "find_filename"
            /\ files' = files
            /\ dls' = dls
            /\ history' = history ]_vars

C14_Witness ==
    /\ pc = "crashed"
    /\ err = "find_filename"
    /\ NewestNameCorrupt
    /\ cur.link \notin history
    /\ \A j \in 1..Len(dls) : dls[j].entry # cur

-----------------------------------------------------------------------------
(* Claims about the containment of failures *)

\* C15: when the release-readiness fetch, the thumbnail step or the metadata
\* write fails for one entry, check_show goes on with the remaining entries
\* of the show: processing stops for good only when no entry remains.
C15_EntryFailureContained ==
    ( /\ pc = "crashed"
      /\ err \in { "should_download", "save_thumb", "write_nfo" } ) =>
        entryIdx = Len(entries)

\* C16: a step in which should_download rejects an entry changes neither
\* the folders nor the history, invokes no downloader and takes the loop to
\* the next entry; and the thumbnail, metadata and download steps are only
\* ever taken for an entry should_download has just accepted.  Polling a
\* show whose entries are all in the history therefore creates no file.
C16_RejectedEntryLeavesNoTrace ==
    [][ /\ ( /\ pc = "entries"
             /\ Len(evals') = Len(evals) + 1
             /\ ~evals'[Len(evals')].outcome.raised
             /\ ~evals'[Len(evals')].outcome.value ) =>
               /\ files' = files
               /\ history' = history
               /\ dls' = dls
               /\ pc' = "entries"
               /\ entryIdx' = entryIdx + 1
        /\ pc' \in { "thumb", "nfo", "download" } =>
               /\ evals'[Len(evals')].entry = entries'[entryIdx']
               /\ Accepted(evals'[Len(evals')].outcome) ]_vars

C16_Witness ==
    /\ polls = 2
    /\ showIdx = 2
    /\ pc = "entries"
    /\ entryIdx > Len(entries)
    /\ Len(entries) = 2
    /\ \A i \in 1..Len(evals) : evals[i].known /\ ~Accepted(evals[i].outcome)
    /\ dls = << >>

-----------------------------------------------------------------------------
(* Claims about the files of a folder *)

\* the step is a downloader invocation
Invoked == pc = "download" /\ Len(dls') = Len(dls) + 1

\* the media file the downloader invoked in this step writes to
Target == dls'[Len(dls')].stem \o Mp4

\* C17 as stated: the downloader is never invoked with a filename stem whose
\* media file is already in the show's folder.
C17_NeverOverwrites ==
    [][ Invoked => Target \notin files[show.download.folder] ]_vars

\* C17 (amended): while every counted file of the show's folder is named
\* "<prefix> S<yy>E<nn>.mp4", with two digits of episode and a season not
\* after the current one, the downloader is never invoked with a filename
\* stem whose media file is already in the folder.
C17_NeverOverwritesWithinTwoDigits ==
    [][ ( /\ Invoked
          /\ WellNamed(files[show.download.folder], show.download.filename,
                       year) ) =>
            Target \notin files[show.download.folder] ]_vars

C17_Witness ==
    /\ showIdx \in 1..Len(Shows)
    /\ pc = "entries"
    /\ WellNamed(files[show.download.folder], show.download.filename, year)
    /\ Cardinality(Matching(files[show.download.folder],
                            show.download.filename)) >= 3
    /\ \E d \in 1..Len(dls) :
          /\ dls[d].returncode = 0
          /\ DlEpisode(d) = 2

\* C18, for the media files written in the current check_show call: the
\* thumbnail (call 1) and the metadata sidecar (call 2) carrying the stem of
\* a media file were written by the steps of the entry the media file is
\* of, and by no entry processed after it.
C18_SidecarsOfTheSameEntry ==
    \A d \in 1..Len(dls) :
        dls[d].returncode = 0 =>
            \A k \in { 1, 2 } :
                /\ dls[d].calls[k] = dls[d].stem
                /\ \A e \in (d + 1)..Len(dls) : dls[e].calls[k] # dls[d].stem

-----------------------------------------------------------------------------
(* Claims about shows sharing a folder *)

\* the files a step creates or removes in the shared folder
Changed == (files'["demo"] \ files["demo"]) \cup (files["demo"] \ files'["demo"])

\* f is a media file named for the show: "<prefix> S<dd>E<digits>.mp4"
MediaFileOf(f, download) == IsEpisodeName(f, download.filename)

\* C19 as stated: creating or removing media files of another show of the
\* folder does not change the filename find_filename returns for a show,
\* whatever the two prefixes.
C19_OtherShowsFilesIgnored ==
    [][ \A own, other \in PairShows :
          ( /\ own # other
            /\ Changed # {}
            /\ \A f \in Changed : MediaFileOf(f, other) ) =>
              find_filename(own, files'[own.folder], year)
                  = find_filename(own, files[own.folder], year) ]_vars

\* C19 (amended): creating or removing media files of another show of the
\* folder does not change the filename find_filename returns for a show,
\* provided the show's prefix does not occur in the names of those files.
C19_ForeignFilesIgnored ==
    [][ \A own, other \in PairShows :
          ( /\ own # other
            /\ Changed # {}
            /\ \A f \in Changed :
                  MediaFileOf(f, other) /\ ~Contains(f, own.filename) ) =>
              find_filename(own, files'[own.folder], year)
                  = find_filename(own, files[own.folder], year) ]_vars

C19_Witness ==
    /\ FileName(Demo, << "2", "4" >>, << "0", "1" >>, Mp4) \in files["demo"]
    /\ FileName(<< "D", "e" >>, << "2", "4" >>, << "0", "2" >>, Mp4)
           \in files["demo"]
    /\ returned = << Return(FileName(Demo, << "2", "4" >>, << "0", "2" >>,
                                     << >>)) >>
    /\ FileName(Demo, << "2", "4" >>, << "0", "2" >>, Mp4) \in files["demo"]

=============================================================================
